---- MODULE Spec2Model ----
(***************************************************************************)
(* Model of ai-cli.py: the HTTP client (AIClient), its streaming decoder   *)
(* (chat_stream) and the command handlers of AICLI, cmd_chat's interactive *)
(* loop in particular.                                                     *)
(*                                                                         *)
(* A Python str is a sequence of tokens, so that concatenation, f-string   *)
(* formatting and equality of texts are computed, not assumed.             *)
(***************************************************************************)
EXTENDS Integers, Sequences, FiniteSets, TLC

\* ---------------------------------------------------------------- bounds
MaxLines == 3       \* lines of one streamed response body
MaxTurns == 2       \* input() calls of one interactive session
MaxInterrupts == 1  \* SIGINTs delivered during one invocation
MaxModels == 1      \* entries of the "models" array of /api/tags

\* ------------------------------------------------------- the environment
Commands == {"chat", "code", "explain", "translate", "summarize", "review", "models"}

\* args.message of the chat subparser (nargs='?'): absent, "" or a text
MessageArgs == {"None", "empty", "text"}

\* text fragments a server puts in "response": the model generates what it
\* likes, a text that reads like one of the client's own messages included
Fragments == {<<"a">>, <<"Connection error: ", "Connection refused">>}

\* One line handed out by response.iter_lines(), by what it holds:
\*   empty    b""                          (keep-alive)
\*   garbage  b"{bad"                      (not JSON)
\*   badutf8  b"\xff\xfe{"                 (bytes that do not decode)
\*   num      b"5"                         (JSON, but not an object)
\*   done     b'{"done": true}'            (object without "response")
\*   resp     b'{"response": <resp>}'
\*   reset    no line: the transport raises (connection reset mid-stream)
Line(k, r) == [k |-> k, resp |-> r]

LineAlphabet ==
    {Line(k, <<>>) : k \in {"empty", "garbage", "badutf8", "num", "done", "reset"}}
      \cup {Line("resp", f) : f \in Fragments}

RECURSIVE SeqsUpTo(_, _)
SeqsUpTo(S, n) ==
    IF n = 0 THEN {<<>>}
    ELSE LET shorter == SeqsUpTo(S, n - 1)
         IN  shorter \cup {Append(s, x) : s \in {t \in shorter : Len(t) = n - 1}, x \in S}

LineSeqs == SeqsUpTo(LineAlphabet, MaxLines)

\* status codes of an answer to POST /api/generate: success, another 2xx, an error
Statuses == {200, 201, 404}

\* chat_stream never looks at the status code: one success and one error do
StreamStatuses == {200, 404}

StatusStr(s) == CASE s = 200 -> "200" [] s = 201 -> "201" [] s = 404 -> "404" [] OTHER -> "500"

\* what requests.post can do: raise before a response exists, or answer
Reaches == {"ok", "ConnectionError", "Timeout"}

\* the body of a non-streamed answer: the completion object, an object
\* without "response", a text that is not JSON, a JSON array
BodyKinds == {"completion", "noresp", "garbage", "array"}

Server(reach, status, lines, body) ==
    [reach |-> reach, status |-> status, lines |-> lines, body |-> body]

NoServer == Server("none", 0, <<>>, "completion")

DownServers == {Server(r, 0, <<>>, "completion") : r \in Reaches \ {"ok"}}

\* servers as a streamed request sees them: any lines; were the same request
\* sent with stream=false, a 200 would carry the completion object and an
\* error status an error object
StreamServers ==
    DownServers \cup {Server("ok", s, l, IF s = 200 THEN "completion" ELSE "noresp") :
                         s \in StreamStatuses, l \in LineSeqs}

\* servers as a non-streamed request sees them: the lines only fix the
\* completion text, so they are fragment-bearing lines
RespLineSeqs == {l \in LineSeqs : \A i \in 1..Len(l) : l[i].k = "resp"}

ChatServers ==
    DownServers \cup {Server("ok", s, l, b) : s \in Statuses, l \in RespLineSeqs, b \in BodyKinds}

\* ------------------------------------------------------------ Python str
RECURSIVE Concat(_)
Concat(ss) == IF ss = <<>> THEN <<>> ELSE Head(ss) \o Concat(Tail(ss))

\* str(e) of the exceptions the client formats into its result
ExcStr(e) ==
    CASE e = "ConnectionError"    -> <<"Connection refused">>
      [] e = "Timeout"            -> <<"Read timed out">>
      [] e = "ChunkedEncodingError" -> <<"Connection broken">>
      [] e = "JSONDecodeError"    -> <<"Expecting value">>
      [] e = "UnicodeDecodeError" -> <<"codec can't decode">>
      [] e = "TypeError"          -> <<"argument of type 'int' is not iterable">>
      [] e = "AttributeError"     -> <<"'list' object has no attribute 'get'">>
      [] OTHER                    -> <<e>>

\* ------------------------------------------------------------ the server
\* the fragments of the lines that are objects carrying "response"
RECURSIVE FragmentsOf(_)
FragmentsOf(lines) ==
    IF lines = <<>> THEN <<>>
    ELSE IF Head(lines).k = "resp" THEN <<Head(lines).resp>> \o FragmentsOf(Tail(lines))
    ELSE FragmentsOf(Tail(lines))

\* the completion the server generates: what it streams, in one piece
Completion(srv) == Concat(FragmentsOf(srv.lines))

\* response.text of the non-streamed answer
BodyText(srv) ==
    CASE srv.body = "completion" -> <<"{\"response\": \"">> \o Completion(srv) \o <<"\"}">>
      [] srv.body = "noresp"     -> <<"{\"error\": \"model not found\"}">>
      [] srv.body = "garbage"    -> <<"<html>">>
      [] OTHER                   -> <<"[]">>

\* response.json() of the non-streamed answer: the exception it raises, or
\* the value it returns (t: its Python type)
BodyJson(srv) ==
    CASE srv.body = "completion" -> [exc |-> "none", t |-> "dict", has |-> TRUE, resp |-> Completion(srv)]
      [] srv.body = "noresp"     -> [exc |-> "none", t |-> "dict", has |-> FALSE, resp |-> <<>>]
      [] srv.body = "garbage"    -> [exc |-> "JSONDecodeError", t |-> "none", has |-> FALSE, resp |-> <<>>]
      [] OTHER                   -> [exc |-> "none", t |-> "list", has |-> FALSE, resp |-> <<>>]

\* ---------------------------------------------------------- AIClient.chat
\* a bug that takes every 2xx status for the success of line 69
chatAny2xx(srv) ==
    IF srv.reach # "ok"
    THEN <<"Connection error: ">> \o ExcStr(srv.reach)
    ELSE IF srv.status \in 200..299
         THEN Completion(srv)
         ELSE <<"Error: ", StatusStr(srv.status), " - ">> \o BodyText(srv)

\* lines 62-74: the returned str
chat(srv) ==
    IF srv.reach # "ok"
    THEN <<"Connection error: ">> \o ExcStr(srv.reach)
    ELSE IF srv.status = 200
         THEN LET data == BodyJson(srv)
              IN  IF data.exc # "none"
                  THEN <<"Connection error: ">> \o ExcStr(data.exc)
                  ELSE IF data.t # "dict"
                       THEN <<"Connection error: ">> \o ExcStr("AttributeError")
                       ELSE IF data.has THEN data.resp ELSE <<"No response received">>
         ELSE <<"Error: ", StatusStr(srv.status), " - ">> \o BodyText(srv)

\* --------------------------------------------------- AIClient.chat_stream
\* json.loads(line), lines 101
json_loads(line) ==
    CASE line.k = "garbage" -> [exc |-> "JSONDecodeError", t |-> "none", has |-> FALSE, resp |-> <<>>]
      [] line.k = "badutf8" -> [exc |-> "UnicodeDecodeError", t |-> "none", has |-> FALSE, resp |-> <<>>]
      [] line.k = "num"     -> [exc |-> "none", t |-> "int", has |-> FALSE, resp |-> <<>>]
      [] line.k = "done"    -> [exc |-> "none", t |-> "dict", has |-> FALSE, resp |-> <<>>]
      [] OTHER              -> [exc |-> "none", t |-> "dict", has |-> TRUE, resp |-> line.resp]

\* the body of the for loop, lines 98-108, for one line: what the generator
\* does with it.  act: "skip" (next line), "yield" (a chunk, then next line),
\* "raise" (the outer handler yields the error text and the generator ends)
Step(act, exc, chunk) == [act |-> act, exc |-> exc, chunk |-> chunk]

ProcessLine(line) ==
    IF line.k = "reset"
    THEN Step("raise", "ChunkedEncodingError", <<"Connection error: ">> \o ExcStr("ChunkedEncodingError"))
    ELSE IF line.k = "empty"
    THEN Step("skip", "none", <<>>)
    ELSE LET data == json_loads(line)
         IN  IF data.exc = "JSONDecodeError"
             THEN Step("skip", "none", <<>>)
             ELSE IF data.exc # "none"
             THEN Step("raise", data.exc, <<"Connection error: ">> \o ExcStr(data.exc))
             ELSE IF data.t # "dict"
             THEN Step("raise", "TypeError", <<"Connection error: ">> \o ExcStr("TypeError"))
             ELSE IF data.has
             THEN Step("yield", "none", data.resp)
             ELSE Step("skip", "none", <<>>)

\* ------------------------------------------------ AIClient.check_connection
ProbeOutcome(exc, status) == [exc |-> exc, status |-> status]

NoProbe == ProbeOutcome("notrun", 0)

ProbeStatuses == {200, 204, 404, 500}

ProbeOutcomes ==
    {ProbeOutcome(e, 0) : e \in {"ConnectionError", "Timeout"}}
      \cup {ProbeOutcome("none", s) : s \in ProbeStatuses}

\* a bug that reports the server available when the probe raises
check_connectionOnError(o) == IF o.exc # "none" THEN TRUE ELSE o.status = 200

\* lines 32-36; the bare except catches whatever requests.get raises
check_connection(o) == IF o.exc # "none" THEN FALSE ELSE o.status = 200

\* --------------------------------------------------- AIClient.list_models
\* one element of the "models" array: a good entry, an element that is not
\* an object, an entry whose "size" is a string, one whose "modified_at" is null
Entries == {"good", "nondict", "badsize", "badmod"}

Catalog(exc, status, k, items) == [exc |-> exc, status |-> status, k |-> k, items |-> items]

\* the body of GET /api/tags: not JSON, a JSON array, an object without
\* "models", "models": null, "models": 5, "models": [...]
CatalogOutcomes ==
    {Catalog(e, 0, "garbage", <<>>) : e \in {"ConnectionError"}}
      \cup {Catalog("none", 500, "garbage", <<>>)}
      \cup {Catalog("none", 200, k, <<>>) : k \in {"garbage", "array", "nomodels", "null", "int"}}
      \cup {Catalog("none", 200, "list", l) : l \in SeqsUpTo(Entries, MaxModels)}

\* no GET /api/tags answered yet
NoCatalog == Catalog("notrun", 0, "garbage", <<>>)

PyValue(t, items) == [t |-> t, items |-> items]

NoModels == PyValue("list", <<>>)

\* lines 40-46: the value returned
client_list_models(c) ==
    IF c.exc # "none" THEN NoModels
    ELSE IF c.status # 200 THEN NoModels
    ELSE CASE c.k = "garbage"  -> NoModels
           [] c.k = "array"    -> NoModels
           [] c.k = "nomodels" -> NoModels
           [] c.k = "null"     -> PyValue("None", <<>>)
           [] c.k = "int"      -> PyValue("int", <<>>)
           [] OTHER            -> PyValue("list", c.items)

\* `not models`, line 356
Falsy(v) == v.t = "None" \/ (v.t = "list" /\ v.items = <<>>)

\* lines 363-368 for one entry: the exception it raises, or "none"
RenderEntry(e) ==
    CASE e = "nondict" -> "AttributeError"
      [] e = "badsize" -> "TypeError"
      [] e = "badmod"  -> "TypeError"
      [] OTHER         -> "none"

\* lines 360-368: the first exception the rendering raises, or "none"
RECURSIVE RenderItems(_)
RenderItems(items) ==
    IF items = <<>> THEN "none"
    ELSE IF RenderEntry(Head(items)) # "none" THEN RenderEntry(Head(items))
    ELSE RenderItems(Tail(items))

RenderError(v) == IF v.t # "list" THEN "TypeError" ELSE RenderItems(v.items)

\* ------------------------------------------------------- the console input
\* what input() returns, as a sequence of characters
Inputs ==
    { <<"/", "q", "u", "i", "t">>, <<"/", "E", "x", "i", "t">>, <<"/", "q">>,
      <<"/", "h", "e", "l", "p">>, <<"/", "H", "E", "L", "P">>,
      <<"/", "c", "l", "e", "a", "r">>,
      <<"/", "m", "o", "d", "e", "l", "s">>,
      <<>>, <<" ", " ">>,
      <<"h", "i">>, <<" ", "/", "q", "u", "i", "t">> }

\* str.lower(), character by character
LowerChar(c) ==
    CASE c = "E" -> "e" [] c = "H" -> "h" [] c = "L" -> "l" [] c = "P" -> "p"
      [] c = "Q" -> "q" [] c = "U" -> "u" [] c = "I" -> "i" [] c = "T" -> "t"
      [] OTHER -> c

\* a bug that compares the input as typed
LowerNone(s) == s

Lower(s) == [i \in 1..Len(s) |-> LowerChar(s[i])]

\* str.strip()
RECURSIVE LStrip(_)
LStrip(s) == IF s # <<>> /\ Head(s) = " " THEN LStrip(Tail(s)) ELSE s

RECURSIVE RStrip(_)
RStrip(s) == IF s # <<>> /\ s[Len(s)] = " " THEN RStrip(SubSeq(s, 1, Len(s) - 1)) ELSE s

\* a bug that tests the input untrimmed
StripNothing(s) == s

Strip(s) == RStrip(LStrip(s))

\* a bug that forgets the /exit alias
QuitCommandsNoExit == { <<"/", "q", "u", "i", "t">>, <<"/", "q">> }

\* the list of line 174
QuitCommands == { <<"/", "q", "u", "i", "t">>, <<"/", "e", "x", "i", "t">>, <<"/", "q">> }

\* lines 174-188: what the loop does with one input
Classify(text) ==
    IF Lower(text) \in QuitCommands THEN "quit"
    ELSE IF Lower(text) = <<"/", "h", "e", "l", "p">> THEN "help"
    ELSE IF Lower(text) = <<"/", "c", "l", "e", "a", "r">> THEN "clear"
    ELSE IF Lower(text) = <<"/", "m", "o", "d", "e", "l", "s">> THEN "models"
    ELSE IF Strip(text) = <<>> THEN "empty"
    ELSE "dispatch"

\* ------------------------------------------------------------- the state
VARIABLES
    cmd,        \* args.command
    argMessage, \* args.message of chat
    stream,     \* args.stream
    pc,         \* where the invocation is: start, probe, file, input, help,
                \* clear, models, render, dispatch, await, returned,
                \* streaming, Terminated (the handler returned), crashed (an
                \* exception left the handler)
    turns,      \* input() calls made
    interrupts, \* SIGINTs delivered
    message,    \* cmd_chat's local `message`: the last text input() returned
    net,        \* the HTTP requests issued, in order
    out,        \* the labelled messages printed
    farewells,  \* "Goodbye!" lines printed
    printed,    \* the response texts printed in the current turn, in order
    raised,     \* the exception that left the command handler, or "none"
    probe,      \* the outcome of check_connection's GET
    models,     \* AICLI.list_models' local `models`
    srv,        \* how the server answers the generation request in flight
    result,     \* the str chat returned
    g,          \* the chat_stream generator: none, created, iterating,
                \* yielded, finished, abandoned
    gexc,       \* the exception chat_stream's outer handler caught, or "none"
    pos,        \* lines read from response.iter_lines()
    chunks,     \* the chunks chat_stream yielded, in order
    conn,       \* the connection of the streamed response: none, open, released
    inflight,   \* generation requests issued and not yet completed or abandoned
    file,       \* what the handler found at the path it was given, or "none"
    catalog     \* the answer to the last GET /api/tags of list_models

vars == <<cmd, argMessage, stream, pc, turns, interrupts, message, net, out,
          farewells, printed, raised, probe, models, srv, result, g, gexc, pos,
          chunks, conn, inflight, file, catalog>>

args == <<cmd, argMessage, stream>>

client == <<srv, result, g, gexc, pos, chunks, conn, inflight>>

\* `if args.message:` is false, line 150: the interactive loop runs
InLoop == cmd = "chat" /\ argMessage # "text"

\* where a command goes when a turn, or /models, is over
AfterCommand == IF InLoop THEN "input" ELSE "Terminated"

\* where a handler goes after a successful probe
AfterProbe ==
    CASE cmd = "chat" -> IF argMessage = "text" THEN "dispatch" ELSE "input"
      [] cmd \in {"code", "translate"} -> "dispatch"
      [] OTHER -> "file"

\* a response that is dropped without close(): whether its socket is closed
\* is up to the garbage collector
Dropped(c) == IF c = "open" THEN {"open", "released"} ELSE {c}

Init ==
    /\ cmd \in Commands
    /\ argMessage \in (IF cmd = "chat" THEN MessageArgs ELSE {"None"})
    /\ stream \in BOOLEAN
    /\ pc = "start"
    /\ turns = 0
    /\ interrupts = 0
    /\ message = <<>>
    /\ net = <<>>
    /\ out = {}
    /\ farewells = 0
    /\ printed = <<>>
    /\ raised = "none"
    /\ probe = NoProbe
    /\ models = NoModels
    /\ srv = NoServer
    /\ result = <<>>
    /\ g = "none"
    /\ gexc = "none"
    /\ pos = 0
    /\ chunks = <<>>
    /\ conn = "none"
    /\ inflight = 0
    /\ file = "none"
    /\ catalog = NoCatalog

\* main, lines 451-465
Main ==
    /\ pc = "start"
    /\ pc' = IF cmd = "models" THEN "models" ELSE "probe"
    /\ UNCHANGED <<args, file, catalog, turns, interrupts, message, net, out, farewells, printed,
                   raised, probe, models, client>>

\* check_ollama_status, lines 137-143, as every cmd_* handler starts with it
CheckOllamaStatus ==
    /\ pc = "probe"
    /\ \E o \in ProbeOutcomes :
         /\ probe' = o
         /\ net' = Append(net, "GET /api/tags")
         /\ IF check_connection(o)
            THEN pc' = AfterProbe /\ out' = out
            ELSE pc' = "Terminated" /\ out' = out \cup {"Unavailable"}
    /\ UNCHANGED <<args, file, catalog, turns, interrupts, message, farewells, printed, raised,
                   models, client>>

\* os.path.isfile and open().read() of explain, summarize, review
FileStates == {"nofile", "readable", "unreadable"}

\* a bug that goes on with an empty content when the file cannot be read
FileOutcomeIgnoresError(c, f) ==
    IF f = "nofile" /\ c = "review" THEN "FileNotFound" ELSE "prompt"

\* lines 233-242, 287-299, 326-335: the message printed before returning,
\* or "prompt" when the handler goes on to build the prompt
FileOutcome(c, f) ==
    IF f = "nofile"
    THEN IF c = "review" THEN "FileNotFound" ELSE "prompt"
    ELSE IF f = "unreadable" THEN "FileError" ELSE "prompt"

\* the file step of explain, summarize and review
ReadFile ==
    /\ pc = "file"
    /\ \E f \in FileStates :
         /\ file' = f
         /\ IF FileOutcome(cmd, f) = "prompt"
            THEN pc' = "dispatch" /\ out' = out
            ELSE pc' = "Terminated" /\ out' = out \cup {FileOutcome(cmd, f)}
    /\ UNCHANGED <<args, catalog, turns, interrupts, message, net, farewells, printed,
                   raised, probe, models, client>>

\* the generation call of a handler, lines 156-163, 192-197, 216-221, ...:
\* chat_stream(...) only creates the generator; chat(...) sends the POST
Dispatch ==
    /\ pc = "dispatch"
    /\ IF stream
       THEN /\ pc' = "streaming"
            /\ g' = "created"
            /\ gexc' = "none"
            /\ pos' = 0
            /\ chunks' = <<>>
            /\ conn' = "none"
            /\ UNCHANGED <<net, srv, inflight>>
       ELSE /\ pc' = "await"
            /\ \E s \in ChatServers : srv' = s
            /\ net' = Append(net, "POST /api/generate")
            /\ inflight' = inflight + 1
            /\ UNCHANGED <<g, gexc, pos, chunks, conn>>
    /\ UNCHANGED <<args, file, catalog, turns, interrupts, message, out, farewells, printed,
                   raised, probe, models, result>>

\* chat returns, lines 69-74
ChatReturns ==
    /\ pc = "await"
    /\ result' = chat(srv)
    /\ inflight' = inflight - 1
    /\ pc' = "returned"
    /\ UNCHANGED <<args, file, catalog, turns, interrupts, message, net, out, farewells, printed,
                   raised, probe, models, srv, g, gexc, pos, chunks, conn>>

\* print(response), lines 164, 198
PrintResponse ==
    /\ pc = "returned"
    /\ printed' = <<result>>
    /\ result' = <<>>
    /\ srv' = NoServer
    /\ pc' = AfterCommand
    /\ UNCHANGED <<args, file, catalog, turns, interrupts, message, net, out, farewells, raised,
                   probe, models, g, gexc, pos, chunks, conn, inflight>>

\* the first next() on the generator: requests.post(..., stream=True),
\* lines 90-96, and the handler of line 107 when it raises
StreamOpen ==
    /\ pc = "streaming"
    /\ g = "created"
    /\ \E s \in StreamServers :
         /\ srv' = s
         /\ IF s.reach # "ok"
            THEN /\ gexc' = s.reach
                 /\ chunks' = <<(<<"Connection error: ">> \o ExcStr(s.reach))>>
                 /\ g' = "yielded"
                 /\ conn' = conn
            ELSE /\ gexc' = gexc
                 /\ chunks' = chunks
                 /\ g' = "iterating"
                 /\ conn' = "open"
    /\ net' = Append(net, "POST /api/generate")
    /\ inflight' = inflight + 1
    /\ UNCHANGED <<args, file, catalog, pc, turns, interrupts, message, out, farewells, printed,
                   raised, probe, models, result, pos>>

\* a bug that ends the loop over the lines once a done marker has been read
ExhaustedAtDone(lines, p) == p = Len(lines) \/ (p > 0 /\ lines[p].k = "done")

\* response.iter_lines() has no further line, line 98
Exhausted(lines, p) == p = Len(lines)

\* the generator reads the next line, lines 98-108; at the end of the body
\* the generator returns.  The transport gives the connection back when the
\* body has been read in full or the read itself failed; an exception of the
\* loop body leaves it as it is
ReadLine ==
    /\ pc = "streaming"
    /\ g = "iterating"
    /\ IF Exhausted(srv.lines, pos)
       THEN /\ g' = "finished"
            /\ conn' = "released"
            /\ inflight' = inflight - 1
            /\ UNCHANGED <<pos, chunks, gexc>>
       ELSE LET step == ProcessLine(srv.lines[pos + 1])
            IN  /\ pos' = pos + 1
                /\ inflight' = inflight
                /\ CASE step.act = "skip" ->
                          UNCHANGED <<g, chunks, gexc, conn>>
                     [] step.act = "yield" ->
                          /\ chunks' = Append(chunks, step.chunk)
                          /\ g' = "yielded"
                          /\ UNCHANGED <<gexc, conn>>
                     [] OTHER ->
                          /\ chunks' = Append(chunks, step.chunk)
                          /\ g' = "yielded"
                          /\ gexc' = step.exc
                          /\ conn' = IF step.exc = "ChunkedEncodingError"
                                     THEN "released" ELSE conn
    /\ UNCHANGED <<args, file, catalog, pc, turns, interrupts, message, net, out, farewells,
                   printed, raised, probe, models, srv, result>>

\* a bug that shows the newest chunk first
print_chunkNewestFirst(shown, chunk) == <<chunk>> \o shown

\* print(chunk, end="", flush=True), lines 159, 194: what the terminal shows
print_chunk(shown, chunk) == Append(shown, chunk)

\* the consumer prints the chunk and asks for the next one, lines 158-160,
\* 193-194; a generator resumed inside its outer handler returns
PrintChunk ==
    /\ pc = "streaming"
    /\ g = "yielded"
    /\ printed' = print_chunk(printed, chunks[Len(chunks)])
    /\ IF gexc # "none"
       THEN /\ g' = "finished"
            /\ conn' \in Dropped(conn)
            /\ inflight' = inflight - 1
       ELSE /\ g' = "iterating"
            /\ UNCHANGED <<conn, inflight>>
    /\ UNCHANGED <<args, file, catalog, pc, turns, interrupts, message, net, out, farewells,
                   raised, probe, models, srv, result, gexc, pos, chunks>>

\* a bug that never sees the end of the generator
StopIterationNever(gen) == FALSE

\* a bug that leaves the for loop while the generator is suspended at a yield
StopIterationEarly(gen) == gen \in {"finished", "yielded"}

\* the for loop over the generator ends when the generator has returned
StopIteration(gen) == gen = "finished"

\* the trailing print() after the for loop, lines 161, 195
StreamEnd ==
    /\ pc = "streaming"
    /\ StopIteration(g)
    /\ pc' = AfterCommand
    /\ srv' = NoServer
    /\ chunks' = <<>>
    /\ pos' = 0
    /\ gexc' = "none"
    /\ UNCHANGED <<args, file, catalog, turns, interrupts, message, net, out, farewells, printed,
                   raised, probe, models, result, g, conn, inflight>>

\* input() returning EOF (end of the standard input) raises EOFError
EndOfInput == <<"<EOF>">>

\* one pass of the while loop up to the generation call, lines 172-188
ReadInput ==
    /\ pc = "input"
    /\ turns < MaxTurns
    /\ turns' = turns + 1
    /\ printed' = <<>>
    /\ \E text \in Inputs \cup {EndOfInput} :
         IF text = EndOfInput
         THEN /\ raised' = "EOFError"
              /\ pc' = "crashed"
              /\ UNCHANGED <<message, farewells>>
         ELSE /\ message' = text
              /\ raised' = raised
              /\ LET c == Classify(text)
                 IN  /\ pc' = CASE c = "quit"  -> "Terminated"
                                [] c = "empty" -> "input"
                                [] OTHER       -> c
                     /\ farewells' = IF c = "quit" THEN farewells + 1 ELSE farewells
    /\ catalog' = NoCatalog
    /\ models' = NoModels
    /\ UNCHANGED <<args, file, interrupts, net, out, probe, client>>

\* show_interactive_help, lines 378-385
ShowHelp ==
    /\ pc = "help"
    /\ pc' = "input"
    /\ out' = out \cup {"Help"}
    /\ UNCHANGED <<args, file, catalog, turns, interrupts, message, net, farewells, printed,
                   raised, probe, models, client>>

\* os.system('clear'), line 181
ClearScreen ==
    /\ pc = "clear"
    /\ pc' = "input"
    /\ UNCHANGED <<args, file, catalog, turns, interrupts, message, net, out, farewells, printed,
                   raised, probe, models, client>>

\* AICLI.list_models up to the table, lines 353-358
FetchModels ==
    /\ pc = "models"
    /\ net' = Append(net, "GET /api/tags")
    /\ \E c \in CatalogOutcomes :
         LET m == client_list_models(c)
         IN  /\ catalog' = c
             /\ models' = m
             /\ IF Falsy(m)
                THEN out' = out \cup {"NoModels"} /\ pc' = AfterCommand
                ELSE out' = out /\ pc' = "render"
    /\ UNCHANGED <<args, file, turns, interrupts, message, farewells, printed, raised,
                   probe, client>>

\* the table of AICLI.list_models, lines 360-368; what it raises is caught
\* neither by cmd_chat's handler (KeyboardInterrupt only) nor by main
RenderModels ==
    /\ pc = "render"
    /\ models' = models
    /\ IF RenderError(models) = "none"
       THEN /\ out' = out \cup {"Table"}
            /\ pc' = AfterCommand
            /\ raised' = raised
       ELSE /\ out' = out
            /\ pc' = "crashed"
            /\ raised' = RenderError(models)
    /\ UNCHANGED <<args, file, catalog, turns, interrupts, message, net, farewells, printed,
                   probe, client>>

\* the generation request is being awaited or its stream consumed
Generating == pc = "await" \/ (pc = "streaming" /\ g \in {"iterating", "yielded"})

\* which handler a KeyboardInterrupt raised at pc reaches:
\*   "probe"   the bare except of check_connection, line 35
\*   "catalog" the bare except of AIClient.list_models, line 45
\*   "loop"    except KeyboardInterrupt of cmd_chat, line 200
\*   "none"    no handler: it leaves the command handler and main
Handler(at) ==
    IF at = "probe" THEN "probe"
    ELSE IF at = "models" THEN "catalog"
    ELSE IF InLoop /\ at # "start" THEN "loop"
    ELSE "none"

\* SIGINT: KeyboardInterrupt is raised wherever the program is
Interrupt ==
    /\ pc \notin {"Terminated", "crashed"}
    /\ interrupts < MaxInterrupts
    /\ interrupts' = interrupts + 1
    /\ LET h == Handler(pc)
       IN  /\ pc' = CASE h = "probe"   -> "Terminated"
                      [] h = "catalog" -> AfterCommand
                      [] h = "loop"    -> "Terminated"
                      [] OTHER         -> "crashed"
           /\ out' = CASE h = "probe"   -> out \cup {"Unavailable"}
                       [] h = "catalog" -> out \cup {"NoModels"}
                       [] OTHER         -> out
           /\ probe' = IF h = "probe" THEN ProbeOutcome("KeyboardInterrupt", 0) ELSE probe
           /\ net' = IF h \in {"probe", "catalog"} THEN Append(net, "GET /api/tags") ELSE net
           /\ farewells' = IF h = "loop" THEN farewells + 1 ELSE farewells
           /\ raised' = IF h = "none" THEN "KeyboardInterrupt" ELSE raised
           /\ catalog' = IF h = "catalog"
                         THEN Catalog("KeyboardInterrupt", 0, "garbage", <<>>) ELSE catalog
           /\ models' = IF h = "catalog" THEN NoModels ELSE models
    /\ inflight' = IF Generating THEN inflight - 1 ELSE inflight
    /\ g' = IF pc = "streaming" /\ g # "finished" THEN "abandoned" ELSE g
    /\ conn' \in (IF pc = "streaming" THEN Dropped(conn) ELSE {conn})
    /\ UNCHANGED <<args, file, turns, message, printed, srv, result, gexc, pos, chunks>>

Next ==
    \/ Main
    \/ CheckOllamaStatus
    \/ ReadFile
    \/ Dispatch
    \/ ChatReturns
    \/ PrintResponse
    \/ StreamOpen
    \/ ReadLine
    \/ PrintChunk
    \/ StreamEnd
    \/ ReadInput
    \/ ShowHelp
    \/ ClearScreen
    \/ FetchModels
    \/ RenderModels
    \/ Interrupt

Spec == Init /\ [][Next]_vars

\* The program is sequential and takes its next step when it can; the server
\* answers a request, sends the next line or ends the body, or the transport
\* fails or runs into the timeout of 120 s (lines 66, 94).  Nothing makes the
\* user type a line or send a signal.
Fairness ==
    /\ WF_vars(Dispatch)
    /\ WF_vars(ChatReturns)
    /\ WF_vars(PrintResponse)
    /\ WF_vars(StreamOpen)
    /\ WF_vars(ReadLine)
    /\ WF_vars(PrintChunk)
    /\ WF_vars(StreamEnd)

LiveSpec == Init /\ [][Next]_vars /\ Fairness

TypeOK ==
    /\ pc \in {"start", "probe", "file", "input", "help", "clear", "models", "render",
                "dispatch", "await", "returned", "streaming", "Terminated", "crashed"}
    /\ g \in {"none", "created", "iterating", "yielded", "finished", "abandoned"}
    /\ conn \in {"none", "open", "released"}
    /\ turns \in 0..MaxTurns
    /\ interrupts \in 0..MaxInterrupts
    /\ pos \in 0..MaxLines
    /\ inflight \in 0..1

\* ================================================================ claims
Malformed(line) == line.k \in {"garbage", "badutf8", "num"}

\* the transport delivers every line of the body
TransportHealthy(s) == s.reach = "ok" /\ \A i \in 1..Len(s.lines) : s.lines[i].k # "reset"

StreamConsumed == pc = "streaming" /\ g = "finished"

\* C1: when every line of the body is delivered, chat_stream yields exactly
\* one chunk per well-formed line carrying "response", in order: a malformed
\* line adds no chunk and no text and does not end the sequence.
C1_MalformedLinesSkipped ==
    (StreamConsumed /\ TransportHealthy(srv)) => chunks = FragmentsOf(srv.lines)

\* C2: the concatenation of the chunks of a fully consumed chat_stream is
\* the string chat returns for the same request against the same server.
C2_StreamEqualsChat ==
    StreamConsumed => Concat(chunks) = chat(srv)

DoneSeen == \E i \in 1..(pos - 1) : srv.lines[i].k = "done"

\* C3 as stated: once a done marker line has been read, chat_stream yields
\* no further chunk, whatever lines follow.
C3_DoneMarkerEndsSequence ==
    ~(pc = "streaming" /\ g = "yielded" /\ DoneSeen)

\* C3 as amended: the chunk sequence ends at the end of the stream, or after
\* the one "Connection error" chunk of an exception caught in chat_stream;
\* a done marker line yields no chunk and does not end the sequence, so
\* without an exception every line is read and every fragment yielded.
C3_EndOfStreamEndsSequence ==
    StreamConsumed =>
        IF gexc = "none"
        THEN pos = Len(srv.lines) /\ chunks = FragmentsOf(srv.lines)
        ELSE chunks # <<>> /\ chunks[Len(chunks)] = <<"Connection error: ">> \o ExcStr(gexc)

C3_Witness ==
    /\ StreamConsumed
    /\ gexc = "none"
    /\ \E i, j \in 1..Len(srv.lines) :
          i < j /\ srv.lines[i].k = "done" /\ srv.lines[j].k = "resp"
    /\ chunks # <<>>

ProbeFails(o) ==
    \/ o.exc \in {"ConnectionError", "Timeout"}
    \/ o.exc = "none" /\ o.status \notin 200..299

\* C4: in every generating command, when the probe fails (network error,
\* timeout, non-2xx status) the handler returns without an exception, the
\* Unavailable message is printed and the probe is the only network call.
C4_ProbeFailureStopsCommand ==
    ProbeFails(probe) =>
        /\ pc = "Terminated"
        /\ raised = "none"
        /\ "Unavailable" \in out
        /\ net = <<"GET /api/tags">>

C4_Witness ==
    /\ cmd = "review"
    /\ probe.exc = "Timeout"
    /\ pc = "Terminated"
    /\ "Unavailable" \in out

\* the interactive session is running
InSession == InLoop /\ pc \notin {"start", "probe", "Terminated", "crashed"}

\* C5: in the interactive session an interrupt received in any
\* non-terminated state ends the session with a farewell.
C5_InterruptAlwaysTerminates ==
    [][(InSession /\ interrupts' = interrupts + 1)
          => (pc' = "Terminated" /\ farewells' = farewells + 1)]_vars

\* C6: an interrupt raised while a generate call is awaited or a stream is
\* iterated ends the chat session, single-shot or interactive, without
\* leaving the command handler.
C6_InterruptedGenerationTerminates ==
    [][(cmd = "chat" /\ Generating /\ interrupts' = interrupts + 1)
          => (pc' = "Terminated" /\ raised' = "none")]_vars

\* C7: after the session has left Streaming no streaming connection is open.
C7_ConnectionReleased ==
    pc \in {"input", "Terminated"} => conn # "open"

Posts == Len(SelectSeq(net, LAMBDA r : r = "POST /api/generate"))

\* C8: at most one generation request is in flight, and none while the
\* driver reads the next input or issues the next request.
C8_OneRequestInFlight ==
    /\ inflight <= 1
    /\ pc \in {"input", "dispatch"} => (inflight = 0 /\ g \notin {"iterating", "yielded"})
    /\ (pc = "streaming" /\ g = "created") => inflight = 0

C8_Witness ==
    /\ Posts = 2
    /\ inflight = 1
    /\ pc = "streaming"

\* C9: no step of a turn of the interactive session, whatever the server
\* answers, lets an exception leave the session loop.
C9_SessionSurvivesErrors ==
    [][(InSession /\ pc # "input" /\ interrupts' = interrupts) => pc' # "crashed"]_vars

\* the text s starts with the token t
StartsWith(s, t) == Len(s) >= 1 /\ s[1] = t

\* the expected result of chat, the success test being `success`
Classified(success) ==
    /\ raised = "none"
    /\ (srv.reach = "ok" /\ success /\ srv.body = "completion") => result = Completion(srv)
    /\ (srv.reach = "ok" /\ ~success) =>
           result = <<"Error: ", StatusStr(srv.status), " - ">> \o BodyText(srv)
    /\ srv.reach # "ok" => result = <<"Connection error: ">> \o ExcStr(srv.reach)

\* C10 as stated: chat never raises; on HTTP success (2xx) it returns the
\* completion text, on a non-2xx status the status code and body, on a
\* transport failure the cause.
C10_ChatClassifies2xx ==
    pc = "returned" => Classified(srv.status \in 200..299)

\* C10 as amended: success is status 200 only, every other status (other
\* 2xx included) is returned as "Error: <status> - <body>"; a 200 whose body
\* is an object without "response" gives "No response received", one whose
\* body is not a JSON object a "Connection error" text.
C10_ChatClassifies200 ==
    pc = "returned" =>
        /\ Classified(srv.status = 200)
        /\ (srv.reach = "ok" /\ srv.status = 200 /\ srv.body = "noresp") =>
               result = <<"No response received">>
        /\ (srv.reach = "ok" /\ srv.status = 200 /\ srv.body \in {"garbage", "array"}) =>
               StartsWith(result, "Connection error: ")

C10_Witness ==
    /\ pc = "returned"
    /\ srv.status = 201
    /\ srv.body = "completion"
    /\ srv.lines # <<>>
    /\ StartsWith(result, "Error: ")

\* C11 as stated: in explain, summarize and review, when the input file
\* cannot be opened or decoded the error is printed and the command ends with
\* no network call made, neither the probe nor a generation request.
C11_FileErrorBeforeAnyNetworkCall ==
    file = "unreadable" =>
        /\ pc = "Terminated"
        /\ "FileError" \in out
        /\ net = <<>>

\* C11 as amended: the probe comes first; when it succeeded and the file
\* cannot be opened or decoded, the error is printed and the command ends
\* with no generation request, the probe being its only network call.
C11_FileErrorBeforeGeneration ==
    file = "unreadable" =>
        /\ pc = "Terminated"
        /\ raised = "none"
        /\ "FileError" \in out
        /\ net = <<"GET /api/tags">>

C11_Witness ==
    /\ cmd = "summarize"
    /\ file = "unreadable"
    /\ pc = "Terminated"
    /\ "FileError" \in out

\* the answer to GET /api/tags is a 200 whose body is an object with a list
\* under "models"
CatalogWellFormed(c) == c.exc = "none" /\ c.status = 200 /\ c.k = "list"

\* C12: AIClient.list_models returns the catalogue unchanged when the answer
\* is well formed and the empty sequence in every other case (unreachable,
\* non-200, body not JSON, not an object, "models" not a list).
C12_ListModelsEmptyOnFailure ==
    catalog.exc # "notrun" =>
        models = IF CatalogWellFormed(catalog)
                 THEN PyValue("list", catalog.items)
                 ELSE PyValue("list", <<>>)

ProbeSucceeded == probe.exc = "none" /\ probe.status = 200

\* the program is in the interactive loop, between two generation calls
ControlPcs == {"input", "help", "clear", "models", "render"}

\* the program is in a generation call
GenerationPcs == {"dispatch", "await", "returned", "streaming"}

\* C13: chat invoked with a pre-supplied message, whatever its value, and a
\* server that is available, never executes the read-input step and has
\* dispatched exactly one generation request when it ends.
C13_SingleShotOneRequest ==
    (cmd = "chat" /\ argMessage # "None" /\ ProbeSucceeded) =>
        /\ turns = 0
        /\ pc \notin ControlPcs
        /\ pc = "Terminated" => Posts = 1

\* the inputs of Inputs that spell a control command, in whatever case
ControlInputs ==
    { <<"/", "h", "e", "l", "p">>, <<"/", "H", "E", "L", "P">>,
      <<"/", "c", "l", "e", "a", "r">>, <<"/", "m", "o", "d", "e", "l", "s">> }

\* every element of the catalogue is an object with a numeric size and a
\* textual modification date
CatalogRenders(c) == c.k = "list" /\ \A i \in 1..Len(c.items) : c.items[i] = "good"

ExitInputs == { <<"/", "q", "u", "i", "t">>, <<"/", "E", "x", "i", "t">> }

\* the step is a read of the interactive loop that returned a text
ReadsText == InLoop /\ pc = "input" /\ turns' = turns + 1 /\ raised' = raised

\* C15: /quit or /exit, in any letter case, read at the read-input step ends
\* the session at once with exactly one farewell and no request.
C15_ExitCommandTerminates ==
    [][(ReadsText /\ message' \in ExitInputs)
          => (pc' = "Terminated" /\ farewells' = 1 /\ net' = net)]_vars

C15_Witness ==
    /\ message = <<"/", "E", "x", "i", "t">>
    /\ pc = "Terminated"
    /\ farewells = 1
    /\ Posts = 0

\* the text is empty or made of spaces
Blank(s) == \A i \in 1..Len(s) : s[i] = " "

\* C16: an empty or whitespace-only input leads back to the read-input step
\* with no request and no error; a generation request is only dispatched
\* for an input that is not blank and not a control command.
C16_BlankInputLoopsBack ==
    [][/\ (ReadsText /\ Blank(message')) =>
              (pc' = "input" /\ net' = net /\ raised' = "none" /\ out' = out)
       /\ (InLoop /\ pc' \in GenerationPcs) =>
              /\ ~Blank(message')
              /\ message' \notin ControlInputs \cup ExitInputs \cup {<<"/", "q">>}]_vars

C16_Witness ==
    /\ message = <<" ", " ">>
    /\ turns = 1
    /\ pc = "input"
    /\ Posts = 0

\* the chunks the generator has yielded and the consumer has been given: all
\* of them, but the last one while the generator is suspended at its yield
Consumed == SubSeq(chunks, 1, IF g = "yielded" THEN Len(chunks) - 1 ELSE Len(chunks))

\* the lines that gave their fragment: all that were read, but the one at
\* which the generator's outer handler was entered
LinesDecoded == IF gexc = "none" \/ pos = 0 THEN pos ELSE pos - 1

\* C17: chunks are printed in the order of the lines, without reordering or
\* buffering: at every point of a stream the printed chunks are exactly the
\* chunks yielded so far, in order, but the one just yielded, which is
\* printed before the next line is read; and the chunks are the fragments
\* of the lines read, in the order of the lines (followed by the error chunk
\* when the stream failed).
C17_ChunksPrintedInOrder ==
    (pc = "streaming" /\ g \in {"iterating", "yielded", "finished"}) =>
        /\ printed = Consumed
        /\ g = "iterating" => printed = chunks
        /\ LET frags == FragmentsOf(SubSeq(srv.lines, 1, LinesDecoded))
           IN  IF gexc = "none"
               THEN chunks = frags
               ELSE /\ Len(chunks) = Len(frags) + 1
                    /\ SubSeq(chunks, 1, Len(frags)) = frags

C17_Witness ==
    /\ pc = "streaming"
    /\ g = "yielded"
    /\ pos = 2
    /\ Len(chunks) = 2
    /\ chunks[1] # chunks[2]
    /\ printed = <<chunks[1]>>

\* C18: a turn of the interactive session that has been dispatched
\* completes: from the generation call and from the consumption of the
\* stream the session gets back to the read-input step, or ends.
C18_DispatchedTurnCompletes ==
    (InLoop /\ pc \in GenerationPcs) ~> (pc \in {"input", "Terminated"})

C18_Witness ==
    /\ InLoop
    /\ pc = "input"
    /\ turns = 1
    /\ stream
    /\ g = "finished"
    /\ Len(printed) = 2

\* the server behaviours of the claim: a failure (transport error or a
\* status outside 2xx) and a successful completion
Failure(s) == s.reach # "ok" \/ s.status \notin 200..299

SuccessfulCompletion(s) == s.reach = "ok" /\ s.status = 200 /\ s.body = "completion"

\* a stream of a successful completion: every line is well formed and
\* delivered, so that its chunks are the fragments of its lines
SuccessfulStream(s) ==
    /\ SuccessfulCompletion(s)
    /\ \A i \in 1..Len(s.lines) : s.lines[i].k \in {"empty", "done", "resp"}

\* C19: what the client hands out for a failure differs from what it hands
\* out for every successful completion: the str chat returns, and the chunk
\* sequence of a consumed stream.
C19_FailureDistinctFromCompletion ==
    /\ (pc = "returned" /\ Failure(srv)) =>
           \A s \in ChatServers : SuccessfulCompletion(s) => chat(s) # result
    /\ (StreamConsumed /\ Failure(srv)) =>
           \A s \in StreamServers : SuccessfulStream(s) => FragmentsOf(s.lines) # chunks

\* the interactive loop was entered and the command handler has been left
LoopEnded == InLoop /\ ProbeSucceeded /\ pc \in {"Terminated", "crashed"}

\* C20: the interactive loop ends only through an exit command or an
\* interrupt, with exactly one farewell printed: whenever it has ended, the
\* handler has returned, the last input read was an exit command or a
\* signal was delivered, and one farewell is on the terminal.
C20_LoopEndsOnlyWithFarewell ==
    LoopEnded =>
        /\ pc = "Terminated"
        /\ raised = "none"
        /\ farewells = 1
        /\ Lower(message) \in QuitCommands \/ interrupts > 0

====
